---------------------------- MODULE Spec2Model ----------------------------
(***************************************************************************)
(* A model of OneForAll's subdomain brute module (src/brute.py):           *)
(*   - the classifier is_valid_subdomain and its helpers,                  *)
(*   - the wildcard record collector collect_wildcard_record together      *)
(*     with the retried query get_wildcard_record,                         *)
(*   - the two passes over the resolver output, stat_ip_times and          *)
(*     deal_output / gen_result_infos.                                     *)
(* Python's None is written None (-1) for a TTL or a count, which are       *)
(* never negative, and {} for the address set of a query outcome, which is *)
(* never empty when there is an answer.                                    *)
(***************************************************************************)
EXTENDS Integers, Sequences, FiniteSets, TLC

\* ------------------------------------------------------------- bounds
\* Recorded outcomes (data or no data) of one run of the collector.
MaxIter == 10
\* Lines of resolver output in one batch.
MaxLines == 2
\* The longest wordlist file, in characters.
MaxFile == 6
\* Names one run of main can accept, and names the pool of a run can hold.
MaxFound == 2
MaxPool == 3
\* settings.ip_appear_maximum, the configurable reuse ceiling.
ip_appear_maximum == 2

\* ---------------------------------------------------------- constants
\* A retry policy that allows a third attempt.
stop_after_three == 2 + 1
\* tenacity.stop_after_attempt(2) on get_wildcard_record.
stop_after_attempt == 2
\* The window of the collector's periodic checks (len(...) == 5).
CheckEvery == 5
\* Python's None where an integer is expected (a TTL, a count).
None == -1

\* settings.brute_ip_blacklist.
ip_blacklist == {"0.0.0.0"}
\* Addresses answers are drawn from.
IPs == {"0.0.0.0", "1.2.3.4", "5.6.7.8"}
\* TTLs of the answers handed to the classifier.
TTLs == {0, 30, 60, 120, 300}

VARIABLES
  \* --- classifier: the arguments of is_valid_subdomain and its result
  v_ip, v_ttl, v_times, wc_ips, wc_ttl, verdict,
  \* --- collector: collect_wildcard_record's locals and its position
  pc, authoritative_ns, attempt, queries, answer,
  ip, ttl, ips, ttls_check, ips_check, ips_stat,
  \* --- result processing: the resolver output and the two passes over it
  lines, wildcard_ips, wildcard_ttl, o_pc, idx, ip_times, infos, subdomains,
  \* --- wildcard detection: the 3 probes of detect_wildcard and its position
  resolves, fetches, similar, d_pc, d_status, d_result, requests, compared, d_ret,
  \* --- dictionary: the wordlist file read by gen_subdomains and its result
  file, expression, dots_pass, g_pc, g_pos, g_subdomains,
  \* --- Brute: the configuration, the loops of run and the steps of main
  word, fuzz, place, arg_place, has_rule, recursive_brute, recursive_depth,
  domains, bulk, enable_check_dict, export,
  r_pc, d_idx, d_from, l_from, all_subdomains, layer_num, s_idx, roots, exported, exit_by,
  m_pc, m_domain, ns_ip_list, enable_wildcard, dict_set, saved, paused,
  interrupted, massdns, processed

clsVars == <<v_ip, v_ttl, v_times, wc_ips, wc_ttl, verdict>>
colVars == <<pc, authoritative_ns, attempt, queries, answer,
             ip, ttl, ips, ttls_check, ips_check, ips_stat>>
outVars == <<lines, wildcard_ips, wildcard_ttl, o_pc, idx, ip_times, infos, subdomains>>
detVars == <<resolves, fetches, similar, d_pc, d_status, d_result, requests, compared, d_ret>>
dictVars == <<file, expression, dots_pass, g_pc, g_pos, g_subdomains>>
cfgVars == <<word, fuzz, arg_place, has_rule, recursive_brute, recursive_depth,
             domains, enable_check_dict, export>>
loopVars == <<place, bulk, r_pc, d_idx, d_from, l_from, all_subdomains, layer_num, s_idx,
              roots, exported, exit_by>>
mainVars == <<m_pc, m_domain, ns_ip_list, enable_wildcard, dict_set, saved, paused,
              interrupted, massdns, processed>>
runVars == <<cfgVars, loopVars, mainVars>>
vars == <<clsVars, colVars, outVars, detVars, dictVars, runVars>>
\* What each part of the model leaves alone.
notCls == <<colVars, outVars, detVars, dictVars, runVars>>
notCol == <<clsVars, outVars, detVars, dictVars, runVars>>
notOut == <<clsVars, colVars, detVars, dictVars, runVars>>
notDet == <<clsVars, colVars, outVars, dictVars, runVars>>
notDict == <<clsVars, colVars, outVars, detVars, runVars>>
notRun == <<clsVars, colVars, outVars, detVars, dictVars>>

\* ------------------------------------------------------------ helpers
\* Python truthiness of an int-or-None and of a collection.
TruthyInt(n) == n # None /\ n # 0
TruthySet(s) == s # {}
\* set(seq)
Range(s) == {s[i] : i \in DOMAIN s}

\* --------------------------------------------------------- classifier
\* A comparison without the escape of the round TTLs.
check_by_compare_no_escape(a, t, w_ips, w_ttl) == a \in w_ips

check_by_compare(a, t, w_ips, w_ttl) ==
  IF a \notin w_ips THEN FALSE
  ELSE IF t # w_ttl /\ t % 60 = 0 /\ w_ttl % 60 = 0 THEN FALSE
  ELSE TRUE

\* A reuse check that already rejects an address at the ceiling.
check_ip_times_at_ceiling(times) == times >= ip_appear_maximum

check_ip_times(times) == times > ip_appear_maximum

\* A classifier that looks at the wildcard profile before the blacklist.
is_valid_subdomain_wildcard_first(a, t, times, w_ips, w_ttl) ==
  IF TruthySet(w_ips) /\ TruthyInt(w_ttl)
     /\ check_by_compare(a, t, w_ips, w_ttl) THEN <<0, "IP wildcard">>
  ELSE IF a \in ip_blacklist THEN <<0, "IP blacklist">>
  ELSE IF check_ip_times(times) THEN <<0, "IP exceeded">>
  ELSE <<1, "OK">>

is_valid_subdomain(a, t, times, w_ips, w_ttl) ==
  IF a \in ip_blacklist THEN <<0, "IP blacklist">>
  ELSE IF TruthySet(w_ips) /\ TruthyInt(w_ttl)
          /\ check_by_compare(a, t, w_ips, w_ttl) THEN <<0, "IP wildcard">>
  ELSE IF check_ip_times(times) THEN <<0, "IP exceeded">>
  ELSE <<1, "OK">>

NoVerdict == <<None, "">>

ClsIdle ==
  /\ v_ip = "1.2.3.4" /\ v_ttl = 0 /\ v_times = 1
  /\ wc_ips = {} /\ wc_ttl = 0 /\ verdict = NoVerdict

ClsInit ==
  /\ v_ip \in IPs
  /\ v_ttl \in TTLs
  /\ v_times \in 1..(ip_appear_maximum + 1)
  /\ wc_ips \in SUBSET IPs
  /\ wc_ttl \in TTLs \cup {None}
  /\ verdict = NoVerdict

Classify ==
  /\ verdict = NoVerdict
  /\ verdict' = is_valid_subdomain(v_ip, v_ttl, v_times, wc_ips, wc_ttl)
  /\ UNCHANGED <<v_ip, v_ttl, v_times, wc_ips, wc_ttl>>

\* ---------------------------------------------------------- collector
\* Address sets of one answer of the pinned resolver.
AnswerSets == {{"1.2.3.4"}, {"5.6.7.8"}, {"1.2.3.4", "5.6.7.8"}}
\* TTLs an answer can carry when n outcomes were recorded before it: the
\* zone's TTL, or a TTL that differs from query to query.
AnswerTTLs(n) == {300, 240 - n}
\* The definitive negative answers of lines 275 and 285.
Negatives == {"NXDOMAIN", "YXDOMAIN", "NoAnswer", "NoNameservers", "EmptyRRset"}

DonePcs == {"return_no_ns", "break_no_data", "break_ttl", "break_converged"}

ColIdle ==
  /\ pc = "idle" /\ authoritative_ns = {} /\ attempt = 0 /\ queries = 0
  /\ answer = "" /\ ip = {} /\ ttl = 0 /\ ips = {}
  /\ ttls_check = <<>> /\ ips_check = <<>>
  /\ ips_stat = [a \in IPs |-> 0]

ColInit ==
  /\ pc = "start"
  /\ authoritative_ns \in {{}, {"9.9.9.9"}}
  /\ attempt = 0 /\ queries = 0 /\ answer = ""
  /\ ip = {} /\ ttl = 0 /\ ips = {}
  /\ ttls_check = <<>> /\ ips_check = <<>>
  /\ ips_stat = [a \in IPs |-> 0]

\* Lines 298-308: without nameservers the collector returns at once.
Start ==
  /\ pc = "start"
  /\ pc' = IF authoritative_ns = {} THEN "return_no_ns" ELSE "loop"
  /\ UNCHANGED <<authoritative_ns, attempt, queries, answer,
                 ip, ttl, ips, ttls_check, ips_check, ips_stat>>

\* Lines 310-313: a fresh token, and the first attempt of the query.
NewToken ==
  /\ pc = "loop"
  /\ pc' = "query" /\ attempt' = 1 /\ queries' = 0 /\ answer' = ""
  /\ UNCHANGED <<authoritative_ns, ip, ttl, ips, ttls_check, ips_check, ips_stat>>

\* A probe whose last attempt timed out is taken for a probe without data.
QueryTimeout_recorded ==
  /\ pc = "query"
  /\ queries' = queries + 1
  /\ answer' = "Timeout"
  /\ IF attempt >= stop_after_attempt
       THEN pc' = "returned" /\ attempt' = attempt /\ ip' = {} /\ ttl' = None
       ELSE pc' = "query" /\ attempt' = attempt + 1 /\ UNCHANGED <<ip, ttl>>
  /\ UNCHANGED <<authoritative_ns, ips, ttls_check, ips_check, ips_stat>>

\* Lines 271-274 under tenacity.retry(stop_after_attempt(2)): a timeout
\* raises TryAgain; the first one is retried, the second one ends in a
\* RetryError that line 314 catches, and the loop continues.
QueryTimeout ==
  /\ pc = "query"
  /\ queries' = queries + 1
  /\ answer' = "Timeout"
  /\ IF attempt >= stop_after_attempt
       THEN pc' = "loop" /\ attempt' = attempt
       ELSE pc' = "query" /\ attempt' = attempt + 1
  /\ UNCHANGED <<authoritative_ns, ip, ttl, ips, ttls_check, ips_check, ips_stat>>

\* Lines 275-278 and 285-287: a definitive negative answer.
QueryNegative ==
  /\ pc = "query"
  /\ Len(ttls_check) < MaxIter
  /\ \E kind \in Negatives : answer' = kind
  /\ queries' = queries + 1
  /\ ip' = {} /\ ttl' = None
  /\ pc' = "returned"
  /\ UNCHANGED <<authoritative_ns, attempt, ips, ttls_check, ips_check, ips_stat>>

\* Lines 288-293: an answer with addresses and a TTL.
QueryData ==
  /\ pc = "query"
  /\ Len(ttls_check) < MaxIter
  /\ \E a \in AnswerSets, t \in AnswerTTLs(Len(ttls_check)) :
        ip' = a /\ ttl' = t
  /\ answer' = "A"
  /\ queries' = queries + 1
  /\ pc' = "returned"
  /\ UNCHANGED <<authoritative_ns, attempt, ips, ttls_check, ips_check, ips_stat>>

\* Lines 279-283: any other error ends the process (exit(1)).
QueryError ==
  /\ pc = "query"
  /\ answer' = "Error"
  /\ queries' = queries + 1
  /\ pc' = "exit"
  /\ UNCHANGED <<authoritative_ns, attempt, ip, ttl, ips, ttls_check, ips_check, ips_stat>>

\* any(ips_check)
any_ips(check) == \E i \in DOMAIN check : TruthySet(check[i])

\* A no-data test that does not wait for the window to fill.
no_data_stop_any_length(check) == ~any_ips(check)

\* Line 323: none of the window's outcomes had data.
no_data_stop(check) == Len(check) = CheckEvery /\ ~any_ips(check)

\* Line 328: len(ttls_check) == 5 and len(set(ttls_check)) == 5.
ttl_stop(check) ==
  Len(check) = CheckEvery /\ Cardinality(Range(check)) = CheckEvery

\* Lines 337-339: one more occurrence of each address of the answer.
count_ips(stat, a) == [x \in IPs |-> IF x \in a THEN stat[x] + 1 ELSE stat[x]]

\* Lines 341-344: the addresses seen at least twice.
addrs(stat) == {x \in IPs : stat[x] >= 2}

\* A convergence test with a threshold of one half.
converged_at_half(stat, seen) == 2 * Cardinality(addrs(stat)) >= Cardinality(seen)

\* Line 346: len(addrs) / len(ips) >= 0.8
converged(stat, seen) == 5 * Cardinality(addrs(stat)) >= 4 * Cardinality(seen)

\* Lines 320-347: the loop body after the query returned.
Iterate ==
  /\ pc = "returned"
  /\ ttls_check' = Append(ttls_check, ttl)
  /\ answer' = ""
  /\ LET ic == Append(ips_check, ip)
         tc == Append(ttls_check, ttl)
     IN IF no_data_stop(ic)
          THEN /\ pc' = "break_no_data"
               /\ ips_check' = ic
               /\ UNCHANGED <<ips, ttl, ips_stat>>
          ELSE /\ ips_check' = IF Len(ic) = CheckEvery THEN <<>> ELSE ic
               /\ IF ttl_stop(tc)
                    THEN /\ ips' = {} /\ ttl' = 0
                         /\ pc' = "break_ttl"
                         /\ UNCHANGED ips_stat
                    ELSE IF ip = {}
                      THEN /\ pc' = "loop"
                           /\ UNCHANGED <<ips, ttl, ips_stat>>
                      ELSE /\ ips' = ips \cup ip
                           /\ ips_stat' = count_ips(ips_stat, ip)
                           /\ pc' = IF converged(count_ips(ips_stat, ip), ips \cup ip)
                                      THEN "break_converged" ELSE "loop"
                           /\ UNCHANGED ttl
  /\ UNCHANGED <<authoritative_ns, attempt, queries, ip>>

\* -------------------------------------------------- result processing
\* A host name is the sequence of its labels; the resolver writes names in
\* root form, with a trailing dot, that is with a last empty label.
RootNames == {<<"www", "example", "com", "">>, <<"api", "example", "com", "">>}

\* name[:-1]: the name without its last character, the root dot.
strip_root(name) == SubSeq(name, 1, Len(name) - 1)

\* The answers of a record: A answers carry an address, others do not.
AnswerOf(type, name, data) == [type |-> type, name |-> name, ttl |-> 300, data |-> data]
LineAnswers(name) ==
  {AnswerOf("A", name, "1.2.3.4"), AnswerOf("A", name, "5.6.7.8"),
   AnswerOf("CNAME", name, "")}

SeqsUpTo(S, n) == UNION {[1..k -> S] : k \in 0..n}

\* One line of resolver output: not parseable (kind "bad"), or a JSON record
\* whose data may or may not hold the key "answers".
BadLine ==
  [kind |-> "bad", name |-> <<>>, status |-> "", has_answers |-> FALSE, answers |-> <<>>]
JsonLine(name, status, has, ans) ==
  [kind |-> "json", name |-> name, status |-> status, has_answers |-> has, answers |-> ans]
LineSet ==
  {BadLine}
  \cup {JsonLine(<<"api", "example", "com", "">>, "NXDOMAIN", FALSE, <<>>)}
  \cup {JsonLine(<<"api", "example", "com", "">>, "SERVFAIL", TRUE,
                 <<AnswerOf("A", <<"api", "example", "com", "">>, "1.2.3.4")>>)}
  \cup {JsonLine(n, "NOERROR", FALSE, <<>>) : n \in RootNames}
  \cup UNION {{JsonLine(n, "NOERROR", TRUE, a) : a \in SeqsUpTo(LineAnswers(n), 2)}
              : n \in RootNames}

\* The wildcard profiles handed to deal_output.
Profiles == {<<{}, 0>>, <<{"1.2.3.4"}, 300>>, <<{"1.2.3.4"}, 60>>}

\* The A answers of a record, in order (lines 392-395).
a_answers(answers) == SelectSeq(answers, LAMBDA a : a.type = "A")

\* ip_times.get(ip): a count, or None for an address never counted.
times_get(times, a) == IF times[a] = 0 THEN None ELSE times[a]

\* Lines 434-453: what one line adds to the frequency table.
RECURSIVE count_answers(_, _)
count_answers(times, answers) ==
  IF answers = <<>> THEN times
  ELSE LET a == Head(answers)
           t == IF a.type = "A"
                  THEN [times EXCEPT ![a.data] = times[a.data] + 1]
                  ELSE times
       IN count_answers(t, Tail(answers))

\* A count that does not look at the status of the record.
stat_line_any_status(times, line) ==
  IF line.kind = "bad" THEN times
  ELSE IF ~line.has_answers THEN times
  ELSE count_answers(times, line.answers)

stat_line(times, line) ==
  IF line.kind = "bad" THEN times
  ELSE IF line.status # "NOERROR" THEN times
  ELSE IF ~line.has_answers THEN times
  ELSE count_answers(times, line.answers)

\* An acceptance that is content with one valid answer.
accepts_any(flags) == \E i \in DOMAIN flags : flags[i] = 1

\* Line 412: have_a_record and all(is_valid_flags).
accepts(flags) == Len(flags) > 0 /\ \A i \in DOMAIN flags : flags[i] = 1

\* An info that keeps the DNS status of the record as its reason.
gen_result_infos_status_reason(items, infs, subs, times, w_ips, w_ttl) ==
  LET qname == strip_root(items.name)
      as == a_answers(items.answers)
      nums == [i \in DOMAIN as |-> times_get(times, as[i].data)]
      verdicts == [i \in DOMAIN as |->
                     is_valid_subdomain(as[i].data, as[i].ttl, nums[i], w_ips, w_ttl)]
      flags == [i \in DOMAIN as |-> verdicts[i][1]]
      info == [resolve |-> 1,
               reason |-> items.status,
               ttl |-> [i \in DOMAIN as |-> as[i].ttl],
               cname |-> [i \in DOMAIN as |-> strip_root(as[i].name)],
               ip |-> [i \in DOMAIN as |-> as[i].data],
               times |-> nums]
  IN IF accepts(flags)
       THEN <<(qname :> info) @@ infs, Append(subs, qname)>>
       ELSE <<infs, subs>>

\* Lines 378-423: the info of one record, and whether it is accepted.
gen_result_infos(items, infs, subs, times, w_ips, w_ttl) ==
  LET qname == strip_root(items.name)
      as == a_answers(items.answers)
      nums == [i \in DOMAIN as |-> times_get(times, as[i].data)]
      verdicts == [i \in DOMAIN as |->
                     is_valid_subdomain(as[i].data, as[i].ttl, nums[i], w_ips, w_ttl)]
      flags == [i \in DOMAIN as |-> verdicts[i][1]]
      reason == IF as = <<>> THEN items.status ELSE verdicts[Len(as)][2]
      info == [resolve |-> 1,
               reason |-> reason,
               ttl |-> [i \in DOMAIN as |-> as[i].ttl],
               cname |-> [i \in DOMAIN as |-> strip_root(as[i].name)],
               ip |-> [i \in DOMAIN as |-> as[i].data],
               times |-> nums]
  IN IF accepts(flags)
       THEN <<(qname :> info) @@ infs, Append(subs, qname)>>
       ELSE <<infs, subs>>

\* Lines 465-484: one line of pass 2.
deal_line(line, infs, subs, times, w_ips, w_ttl) ==
  IF line.kind = "bad" THEN <<infs, subs>>
  ELSE IF line.status # "NOERROR" THEN <<infs, subs>>
  ELSE IF ~line.has_answers THEN <<infs, subs>>
  ELSE gen_result_infos(line, infs, subs, times, w_ips, w_ttl)

OutIdle ==
  /\ lines = <<>> /\ wildcard_ips = {} /\ wildcard_ttl = 0
  /\ o_pc = "idle" /\ idx = 0
  /\ ip_times = [a \in IPs |-> 0]
  /\ infos = <<>> /\ subdomains = <<>>

\* Brute.main, lines 712-714: the resolver has written its output; pass 1
\* starts with an empty table.
OutInit ==
  /\ lines \in SeqsUpTo(LineSet, MaxLines)
  /\ \E p \in Profiles : wildcard_ips = p[1] /\ wildcard_ttl = p[2]
  /\ o_pc = "stat" /\ idx = 1
  /\ ip_times = [a \in IPs |-> 0]
  /\ infos = <<>> /\ subdomains = <<>>

\* stat_ip_times: one line of the loop of line 432.
StatLine ==
  /\ o_pc = "stat" /\ idx <= Len(lines)
  /\ ip_times' = stat_line(ip_times, lines[idx])
  /\ idx' = idx + 1
  /\ UNCHANGED <<lines, wildcard_ips, wildcard_ttl, o_pc, infos, subdomains>>

\* stat_ip_times returns (line 454) and deal_output starts (lines 459-460).
StatDone ==
  /\ o_pc = "stat" /\ idx > Len(lines)
  /\ o_pc' = "deal" /\ idx' = 1
  /\ infos' = <<>> /\ subdomains' = <<>>
  /\ UNCHANGED <<lines, wildcard_ips, wildcard_ttl, ip_times>>

\* A second pass that gives up the rest of the file at a malformed line.
DealLine_stops_at_bad ==
  /\ o_pc = "deal" /\ idx <= Len(lines)
  /\ LET r == deal_line(lines[idx], infos, subdomains, ip_times,
                        wildcard_ips, wildcard_ttl)
     IN infos' = r[1] /\ subdomains' = r[2]
  /\ idx' = IF lines[idx].kind = "bad" THEN Len(lines) + 1 ELSE idx + 1
  /\ UNCHANGED <<lines, wildcard_ips, wildcard_ttl, o_pc, ip_times>>

\* deal_output: one line of the loop of line 464.
DealLine ==
  /\ o_pc = "deal" /\ idx <= Len(lines)
  /\ LET r == deal_line(lines[idx], infos, subdomains, ip_times,
                        wildcard_ips, wildcard_ttl)
     IN infos' = r[1] /\ subdomains' = r[2]
  /\ idx' = idx + 1
  /\ UNCHANGED <<lines, wildcard_ips, wildcard_ttl, o_pc, ip_times>>

\* deal_output returns (line 485).
DealDone ==
  /\ o_pc = "deal" /\ idx > Len(lines)
  /\ o_pc' = "done"
  /\ UNCHANGED <<lines, wildcard_ips, wildcard_ttl, idx, ip_times, infos, subdomains>>

\* -------------------------------------------------- wildcard detection
\* The probes are the 3 random subdomains of line 138, in the order in which
\* both loops (lines 90 and 102) iterate over them.
Probes == 1..3
\* The body of a fetched page; "" is an empty page.
Bodies == {"", "p", "q"}
\* utils.get_url_resp: no response, or a response with a body.
NoResp == "<no response>"
FetchOutcomes == Bodies \cup {NoResp}
\* Python truthiness of what all_request_success collects: a response's
\* text, or the falsy response itself.
TruthyResp(r) == r # NoResp /\ r # ""
\* similarity.is_similar, an outside test: any relation over the bodies.
BodyPairs == Bodies \X Bodies
is_similar(sim, x, y) == <<x, y>> \in sim

\* Lines 81-92: every probe is queried; all(status).
all_resolve_success(res) == \A b \in {res[i] : i \in Probes} : b

\* Lines 95-111: what is collected for each probe, and all(result).
request_result(fet) == [i \in Probes |-> fet[i]]
all_request_success(res) == \A i \in Probes : TruthyResp(res[i])

\* Lines 114-127.
any_similar_html(sim, resp_list) ==
  IF is_similar(sim, resp_list[1], resp_list[2]) THEN TRUE
  ELSE IF is_similar(sim, resp_list[1], resp_list[3]) THEN TRUE
  ELSE IF is_similar(sim, resp_list[2], resp_list[3]) THEN TRUE
  ELSE FALSE

NoRet == "<none>"

DetIdle ==
  /\ resolves = <<>> /\ fetches = <<>> /\ similar = {}
  /\ d_pc = "idle" /\ d_status = {} /\ d_result = <<>>
  /\ requests = 0 /\ compared = FALSE /\ d_ret = NoRet

DetInit ==
  /\ resolves \in [Probes -> BOOLEAN]
  /\ fetches \in [Probes -> FetchOutcomes]
  /\ similar \in SUBSET BodyPairs
  /\ d_pc = "resolve" /\ d_status = {} /\ d_result = <<>>
  /\ requests = 0 /\ compared = FALSE /\ d_ret = NoRet

\* Lines 138-140: the probes are resolved; one failure answers False.
ResolveAll ==
  /\ d_pc = "resolve"
  /\ d_status' = {resolves[i] : i \in Probes}
  /\ IF all_resolve_success(resolves)
       THEN d_pc' = "request" /\ d_ret' = d_ret
       ELSE d_pc' = "done" /\ d_ret' = "False"
  /\ UNCHANGED <<resolves, fetches, similar, d_result, requests, compared>>

\* Lines 141-143: the probes are fetched; one failure answers True.
RequestAll ==
  /\ d_pc = "request"
  /\ d_result' = request_result(fetches)
  /\ requests' = requests + Cardinality(Probes)
  /\ IF all_request_success(request_result(fetches))
       THEN d_pc' = "compare" /\ d_ret' = d_ret
       ELSE d_pc' = "done" /\ d_ret' = "True"
  /\ UNCHANGED <<resolves, fetches, similar, d_status, compared>>

\* Line 144: the answer is that of the comparison.
Compare ==
  /\ d_pc = "compare"
  /\ compared' = TRUE
  /\ d_ret' = IF any_similar_html(similar, d_result) THEN "True" ELSE "False"
  /\ d_pc' = "done"
  /\ UNCHANGED <<resolves, fetches, similar, d_status, d_result, requests>>

\* --------------------------------------------------------- dictionary
\* A wordlist file is a sequence of characters; a string is one too.
Chars == {"a", "A", ".", " ", "_", "\n"}
FileTexts == UNION {[1..k -> Chars] : k \in 0..MaxFile}
\* The expressions handed to gen_subdomains: one `*` and the domain "d".
Expressions == {<<"*", ".", "d">>, <<"a", "*", ".", "d">>}

\* for line in fd: the lines of the file, each with its line end.
RECURSIVE file_lines(_)
file_lines(f) ==
  LET ends == {i \in DOMAIN f : f[i] = "\n"}
  IN IF f = <<>> THEN <<>>
     ELSE IF ends = {} THEN <<f>>
     ELSE LET e == CHOOSE i \in ends : \A j \in ends : i <= j
          IN <<SubSeq(f, 1, e)>> \o file_lines(SubSeq(f, e + 1, Len(f)))

\* str.strip(): without the white space at both ends.
Whitespace == {" ", "\n"}
strip(w) ==
  LET keep == {i \in DOMAIN w : w[i] \notin Whitespace}
  IN IF keep = {} THEN <<>>
     ELSE SubSeq(w, CHOOSE i \in keep : \A j \in keep : i <= j,
                    CHOOSE i \in keep : \A j \in keep : i >= j)

\* str.lower()
lower(w) == [i \in DOMAIN w |-> IF w[i] = "A" THEN "a" ELSE w[i]]

\* utils.is_subname: the check of a word's characters. Letters pass and
\* "_" and white space do not; whether a dot passes is left open (dots_pass).
LabelChars == {"a"}
is_subname(w, dots) ==
  \A i \in DOMAIN w : w[i] \in LabelChars \/ (dots /\ w[i] = ".")

\* Lines 170-173: one leading and one trailing dot are cut.
cut_dots(w) ==
  LET w1 == IF Len(w) > 0 /\ w[1] = "." THEN SubSeq(w, 2, Len(w)) ELSE w
  IN IF Len(w1) > 0 /\ w1[Len(w1)] = "." THEN SubSeq(w1, 1, Len(w1) - 1) ELSE w1

\* str.replace('*', word)
RECURSIVE replace(_, _)
replace(expr, w) ==
  IF expr = <<>> THEN <<>>
  ELSE (IF Head(expr) = "*" THEN w ELSE <<Head(expr)>>) \o replace(Tail(expr), w)

\* Lines 166-175: what one line of the wordlist adds to the set.
gen_line(subs, expr, line, dots) ==
  LET wd == lower(strip(line))
  IN IF Len(wd) = 0 THEN subs
     ELSE IF ~is_subname(wd, dots) THEN subs
     ELSE subs \cup {replace(expr, cut_dots(wd))}

DictIdle ==
  /\ file = <<>> /\ expression = <<>> /\ dots_pass = FALSE
  /\ g_pc = "idle" /\ g_pos = 0 /\ g_subdomains = {}

\* Lines 163-164: the set is empty and the file is open.
DictInit ==
  /\ file \in FileTexts
  /\ expression \in Expressions
  /\ dots_pass \in BOOLEAN
  /\ g_pc = "read" /\ g_pos = 1 /\ g_subdomains = {}

\* Lines 165-175: one line of the loop.
ReadLine ==
  /\ g_pc = "read" /\ g_pos <= Len(file_lines(file))
  /\ g_subdomains' = gen_line(g_subdomains, expression,
                              file_lines(file)[g_pos], dots_pass)
  /\ g_pos' = g_pos + 1
  /\ UNCHANGED <<file, expression, dots_pass, g_pc>>

\* Lines 176-184: the set is returned.
ReturnDict ==
  /\ g_pc = "read" /\ g_pos > Len(file_lines(file))
  /\ g_pc' = "done"
  /\ UNCHANGED <<file, expression, dots_pass, g_pos, g_subdomains>>

\* -------------------------------------------------------------- Brute
\* A domain name is the sequence of its labels; a template has "*" labels.
DomainLists ==
  {<<>>, <<<<"a", "com">>>>, <<<<"a", "com">>, <<"b", "com">>>>}
\* The words of the wordlists.
Words == {"w", "x"}
\* self.place: None, or a template.
NonePlace == <<>>
Places ==
  {NonePlace, <<"*", "a", "com">>, <<"*", "*", "a", "com">>, <<"a", "com">>,
   <<"*", "b", "com">>}
Depths == {2, 3}

\* str.count('*') and str.count('.')
count_star(p) == Cardinality({i \in DOMAIN p : p[i] = "*"})
count_dots(n) == Len(n) - 1
\* self.domain in self.place
contains(p, d) == \E i \in 0..(Len(p) - Len(d)) : SubSeq(p, i + 1, i + Len(d)) = d
\* expression.replace('*', word) on labels
fill(p, w) == [i \in DOMAIN p |-> IF p[i] = "*" THEN w ELSE p[i]]
\* '*.' + domain
star_dot(d) == <<"*">> \o d

\* A validation that lets fuzz mode go with recursive mode.
check_brute_params_fuzz_recursive(wd, fz, pl, rule, blk, rec, dom) ==
  IF ~(wd \/ fz) THEN FALSE
  ELSE IF ~fz THEN TRUE
  ELSE IF pl = NonePlace THEN FALSE
  ELSE IF ~rule THEN FALSE
  ELSE IF blk THEN FALSE
  ELSE IF count_star(pl) < 1 THEN FALSE
  ELSE IF count_star(pl) > 1 THEN FALSE
  ELSE IF ~contains(pl, dom) THEN FALSE
  ELSE TRUE

\* Lines 636-664: TRUE if the method returns, FALSE if it ends the process.
check_brute_params(wd, fz, pl, rule, blk, rec, dom) ==
  IF ~(wd \/ fz) THEN FALSE
  ELSE IF ~fz THEN TRUE
  ELSE IF pl = NonePlace THEN FALSE
  ELSE IF ~rule THEN FALSE
  ELSE IF blk THEN FALSE
  ELSE IF rec THEN FALSE
  ELSE IF count_star(pl) < 1 THEN FALSE
  ELSE IF count_star(pl) > 1 THEN FALSE
  ELSE IF ~contains(pl, dom) THEN FALSE
  ELSE TRUE

\* Lines 617-618: the template is set only while it is None.
place_of(pl, dom) == IF pl = NonePlace THEN star_dot(dom) ELSE pl

\* Lines 613-634: the candidates of both modes.
gen_brute_dict(wd, fz, pl, dom) ==
  (IF wd THEN {fill(place_of(pl, dom), x) : x \in Words} ELSE {})
  \cup (IF fz THEN {fill(place_of(pl, dom), x) : x \in Words} ELSE {})

MainIdle ==
  /\ m_pc = "idle" /\ m_domain = <<>> /\ ns_ip_list = {}
  /\ enable_wildcard = FALSE /\ dict_set = {} /\ saved = FALSE
  /\ paused = FALSE /\ interrupted = FALSE /\ massdns = "none"
  /\ processed = FALSE

RunIdle ==
  /\ word = FALSE /\ fuzz = FALSE /\ place = NonePlace /\ arg_place = NonePlace
  /\ has_rule = FALSE /\ recursive_brute = FALSE /\ recursive_depth = 2
  /\ domains = <<>> /\ bulk = FALSE /\ enable_check_dict = FALSE
  /\ export = TRUE
  /\ r_pc = "idle" /\ d_idx = 0 /\ d_from = 0 /\ l_from = 0
  /\ all_subdomains = <<>>
  /\ layer_num = 0 /\ s_idx = 0 /\ roots = <<>> /\ exported = <<>>
  /\ exit_by = ""
  /\ MainIdle

\* Lines 581-611 and 730-731: the arguments, the domains and the empty pool.
\* A rule is only looked at in fuzz mode and a depth only in recursive mode,
\* so they vary only there.
RunInit ==
  /\ word \in BOOLEAN /\ fuzz \in BOOLEAN
  /\ arg_place \in Places /\ place = arg_place
  /\ has_rule \in (IF fuzz THEN BOOLEAN ELSE {FALSE})
  /\ recursive_brute \in BOOLEAN
  /\ recursive_depth \in (IF recursive_brute THEN Depths ELSE {2})
  /\ domains \in DomainLists /\ bulk = FALSE
  /\ enable_check_dict \in BOOLEAN
  /\ export \in BOOLEAN
  /\ r_pc = "loop" /\ d_idx = 0 /\ d_from = 0 /\ l_from = 0
  /\ all_subdomains = <<>>
  /\ layer_num = 0 /\ s_idx = 0 /\ roots = <<>> /\ exported = <<>>
  /\ exit_by = ""
  /\ MainIdle

InMain == r_pc \in {"main", "main_rec"}

\* Lines 666-677: main is entered for a root.
EnterMain(dom) ==
  /\ m_pc' = "detect" /\ m_domain' = dom /\ ns_ip_list' = {}
  /\ enable_wildcard' = FALSE /\ dict_set' = {} /\ saved' = FALSE
  /\ paused' = FALSE /\ massdns' = "none" /\ processed' = FALSE
  /\ roots' = Append(roots, dom)
  /\ UNCHANGED interrupted

\* exit(): the process ends.
Exit(by) == r_pc' = "exit" /\ exit_by' = by

\* Lines 732-737: the next domain is validated and main is called for it.
NextDomain ==
  /\ r_pc = "loop" /\ d_idx < Len(domains)
  /\ d_idx' = d_idx + 1
  /\ bulk' = IF word \/ fuzz THEN (bulk \/ Len(domains) > 1) ELSE bulk
  /\ IF check_brute_params(word, fuzz, place, has_rule, bulk',
                           recursive_brute, domains[d_idx + 1])
       THEN /\ r_pc' = "main"
            /\ EnterMain(domains[d_idx + 1])
            /\ d_from' = Len(all_subdomains)
            /\ UNCHANGED exit_by
       ELSE /\ Exit("params")
            /\ UNCHANGED <<mainVars, roots, d_from>>
  /\ UNCHANGED <<cfgVars, place, l_from, all_subdomains, layer_num, s_idx,
                 exported>>

\* Line 732: no domain is left and run returns.
RunReturn ==
  /\ r_pc = "loop" /\ d_idx = Len(domains)
  /\ r_pc' = "returned"
  /\ UNCHANGED <<cfgVars, mainVars, place, bulk, d_idx, d_from, l_from, all_subdomains,
                 layer_num, s_idx, roots, exported, exit_by>>

\* Lines 679-681: the nameservers and the wildcard detection.
Detect ==
  /\ InMain /\ m_pc = "detect"
  /\ ns_ip_list' \in {{}, {"9.9.9.9"}}
  /\ enable_wildcard' \in BOOLEAN
  /\ m_pc' = IF enable_wildcard' THEN "collect" ELSE "dict"
  /\ UNCHANGED <<cfgVars, loopVars, m_domain, dict_set, saved, paused,
                 interrupted, massdns, processed>>

\* Lines 683-685: collect_wildcard_record returns a profile.
CollectProfile ==
  /\ InMain /\ m_pc = "collect"
  /\ m_pc' = "dict"
  /\ UNCHANGED <<cfgVars, loopVars, m_domain, ns_ip_list, enable_wildcard,
                 dict_set, saved, paused, interrupted, massdns, processed>>

\* Lines 279-283 under lines 312-318: exit(1) in get_wildcard_record raises
\* SystemExit, which `except Exception` does not catch.
CollectError ==
  /\ InMain /\ m_pc = "collect" /\ ns_ip_list # {}
  /\ Exit("wildcard_error")
  /\ UNCHANGED <<cfgVars, mainVars, place, bulk, d_idx, d_from, l_from, all_subdomains,
                 layer_num, s_idx, roots, exported>>

\* Lines 686-688: the nameserver file and the dictionary.
GenDict ==
  /\ InMain /\ m_pc = "dict"
  /\ place' = place_of(place, m_domain)
  /\ dict_set' = gen_brute_dict(word, fuzz, place, m_domain)
  /\ m_pc' = "save"
  /\ UNCHANGED <<cfgVars, bulk, r_pc, d_idx, d_from, l_from, all_subdomains, layer_num,
                 s_idx, roots, exported, exit_by, m_domain, ns_ip_list,
                 enable_wildcard, saved, paused, interrupted, massdns, processed>>

\* Lines 690-693: the dictionary is written to its temporary file.
SaveDict ==
  /\ InMain /\ m_pc = "save"
  /\ saved' = TRUE
  /\ m_pc' = "pause"
  /\ UNCHANGED <<cfgVars, loopVars, m_domain, ns_ip_list, enable_wildcard,
                 dict_set, paused, interrupted, massdns, processed>>

\* Lines 532-534: the write fails and the process ends.
SaveDictFails ==
  /\ InMain /\ m_pc = "save"
  /\ Exit("save_error")
  /\ UNCHANGED <<cfgVars, mainVars, place, bulk, d_idx, d_from, l_from, all_subdomains,
                 layer_num, s_idx, roots, exported>>

\* A pause whose interrupt is swallowed.
PauseInterrupt_swallowed ==
  /\ InMain /\ m_pc = "pause" /\ enable_check_dict
  /\ interrupted' = TRUE
  /\ paused' = TRUE
  /\ m_pc' = "massdns"
  /\ UNCHANGED <<cfgVars, loopVars, m_domain, ns_ip_list, enable_wildcard,
                 dict_set, saved, massdns, processed>>

\* Lines 364-375: check_dict returns, at once or after the sleep.
Pause ==
  /\ InMain /\ m_pc = "pause"
  /\ paused' = TRUE
  /\ m_pc' = "massdns"
  /\ UNCHANGED <<cfgVars, loopVars, m_domain, ns_ip_list, enable_wildcard,
                 dict_set, saved, interrupted, massdns, processed>>

\* Lines 371-375: an interrupt during the sleep ends the process (exit(0)).
PauseInterrupt ==
  /\ InMain /\ m_pc = "pause" /\ enable_check_dict
  /\ interrupted' = TRUE
  /\ Exit("interrupt")
  /\ UNCHANGED <<cfgVars, place, bulk, d_idx, d_from, l_from, all_subdomains, layer_num,
                 s_idx, roots, exported, m_pc, m_domain, ns_ip_list,
                 enable_wildcard, dict_set, saved, paused, massdns, processed>>

\* utils.call_massdns: the resolver ends with exit status 0, or with another.
MassdnsOutcomes == {"ok", "failed"}

\* Lines 699-703: the resolver is run; nothing is made of its outcome.
CallMassdns ==
  /\ InMain /\ m_pc = "massdns"
  /\ massdns' \in MassdnsOutcomes
  /\ m_pc' = "process"
  /\ UNCHANGED <<cfgVars, loopVars, m_domain, ns_ip_list, enable_wildcard,
                 dict_set, saved, paused, interrupted, processed>>

\* The accepted names of a run of main: resolved candidates, in the order of
\* the output, a name possibly more than once.
Found(cands) == UNION {[1..k -> cands] : k \in 0..MaxFound}

\* Lines 704-724 and 737-738 or 752-753: both passes are run, main returns
\* the accepted names and run adds them to the pool; the argument and the
\* locals of main are gone.
Process ==
  /\ InMain /\ m_pc = "process"
  /\ processed' = TRUE
  /\ m_pc' = "idle"
  /\ \E res \in Found(dict_set) :
       /\ Len(all_subdomains) + Len(res) <= MaxPool
       /\ all_subdomains' = all_subdomains \o res
  /\ IF r_pc = "main"
       THEN IF recursive_brute
              THEN /\ r_pc' = "scan" /\ layer_num' = 1 /\ s_idx' = 1
                   /\ l_from' = Len(all_subdomains')
              ELSE r_pc' = "export" /\ UNCHANGED <<layer_num, s_idx, l_from>>
       ELSE r_pc' = "scan" /\ s_idx' = s_idx + 1 /\ UNCHANGED <<layer_num, l_from>>
  /\ m_domain' = <<>> /\ ns_ip_list' = {} /\ dict_set' = {}
  /\ UNCHANGED <<cfgVars, place, bulk, d_idx, d_from, roots, exported, exit_by,
                 enable_wildcard, saved, paused, interrupted, massdns>>

\* Lines 712 and 430: the resolver failed and left no output file; open()
\* raises and nothing catches it.
ProcessMissingFile ==
  /\ InMain /\ m_pc = "process" /\ massdns = "failed"
  /\ processed' = TRUE
  /\ Exit("error")
  /\ UNCHANGED <<cfgVars, place, bulk, d_idx, d_from, l_from, all_subdomains, layer_num,
                 s_idx, roots, exported, m_pc, m_domain, ns_ip_list,
                 enable_wildcard, dict_set, saved, paused, interrupted, massdns>>

\* A scan that also brutes the names below the depth of the layer.
ScanName_any_deeper ==
  /\ r_pc = "scan" /\ s_idx <= Len(all_subdomains)
  /\ place' = star_dot(all_subdomains[s_idx])
  /\ IF count_dots(all_subdomains[s_idx]) - count_dots(domains[d_idx]) >= layer_num
       THEN /\ r_pc' = "main_rec"
            /\ EnterMain(all_subdomains[s_idx])
            /\ UNCHANGED s_idx
       ELSE /\ s_idx' = s_idx + 1
            /\ UNCHANGED <<r_pc, roots, mainVars>>
  /\ UNCHANGED <<cfgVars, bulk, d_idx, d_from, l_from, all_subdomains, layer_num,
                 exported, exit_by>>

\* Lines 746-753: one name of the pool; it is bruted if its depth is that of
\* the layer.
ScanName ==
  /\ r_pc = "scan" /\ s_idx <= Len(all_subdomains)
  /\ place' = star_dot(all_subdomains[s_idx])
  /\ IF count_dots(all_subdomains[s_idx]) - count_dots(domains[d_idx]) = layer_num
       THEN /\ r_pc' = "main_rec"
            /\ EnterMain(all_subdomains[s_idx])
            /\ UNCHANGED s_idx
       ELSE /\ s_idx' = s_idx + 1
            /\ UNCHANGED <<r_pc, roots, mainVars>>
  /\ UNCHANGED <<cfgVars, bulk, d_idx, d_from, l_from, all_subdomains, layer_num,
                 exported, exit_by>>

\* Lines 742 and 746: the pool is scanned through; the next layer, if any.
NextLayer ==
  /\ r_pc = "scan" /\ s_idx > Len(all_subdomains)
  /\ IF layer_num + 1 < recursive_depth
       THEN /\ layer_num' = layer_num + 1 /\ s_idx' = 1
            /\ l_from' = Len(all_subdomains)
            /\ UNCHANGED r_pc
       ELSE r_pc' = "export" /\ UNCHANGED <<layer_num, s_idx, l_from>>
  /\ UNCHANGED <<cfgVars, mainVars, place, bulk, d_idx, d_from, all_subdomains,
                 roots, exported, exit_by>>

\* Lines 755-766: the results of the domain are exported if self.export.
Export ==
  /\ r_pc = "export"
  /\ exported' = IF export THEN Append(exported, domains[d_idx]) ELSE exported
  /\ r_pc' = "loop"
  /\ UNCHANGED <<cfgVars, mainVars, place, bulk, d_idx, d_from, l_from, all_subdomains,
                 layer_num, s_idx, roots, exit_by>>

\* ------------------------------------------------------ specifications
InitClassifier == ClsInit /\ ColIdle /\ OutIdle /\ DetIdle /\ DictIdle /\ RunIdle
NextClassifier == Classify /\ UNCHANGED notCls
SpecClassifier == InitClassifier /\ [][NextClassifier]_vars

InitCollector == ColInit /\ ClsIdle /\ OutIdle /\ DetIdle /\ DictIdle /\ RunIdle
NextCollector ==
  \/ Start /\ UNCHANGED notCol
  \/ NewToken /\ UNCHANGED notCol
  \/ QueryTimeout /\ UNCHANGED notCol
  \/ QueryNegative /\ UNCHANGED notCol
  \/ QueryData /\ UNCHANGED notCol
  \/ QueryError /\ UNCHANGED notCol
  \/ Iterate /\ UNCHANGED notCol
SpecCollector == InitCollector /\ [][NextCollector]_vars

InitOutput == OutInit /\ ClsIdle /\ ColIdle /\ DetIdle /\ DictIdle /\ RunIdle
NextOutput ==
  \/ StatLine /\ UNCHANGED notOut
  \/ StatDone /\ UNCHANGED notOut
  \/ DealLine /\ UNCHANGED notOut
  \/ DealDone /\ UNCHANGED notOut
SpecOutput == InitOutput /\ [][NextOutput]_vars

InitDetect == DetInit /\ ClsIdle /\ ColIdle /\ OutIdle /\ DictIdle /\ RunIdle
NextDetect ==
  \/ ResolveAll /\ UNCHANGED notDet
  \/ RequestAll /\ UNCHANGED notDet
  \/ Compare /\ UNCHANGED notDet
SpecDetect == InitDetect /\ [][NextDetect]_vars

InitDict == DictInit /\ ClsIdle /\ ColIdle /\ OutIdle /\ DetIdle /\ RunIdle
NextDict ==
  \/ ReadLine /\ UNCHANGED notDict
  \/ ReturnDict /\ UNCHANGED notDict
SpecDict == InitDict /\ [][NextDict]_vars

InitRun == RunInit /\ ClsIdle /\ ColIdle /\ OutIdle /\ DetIdle /\ DictIdle
NextRun ==
  \/ NextDomain /\ UNCHANGED notRun
  \/ RunReturn /\ UNCHANGED notRun
  \/ Detect /\ UNCHANGED notRun
  \/ CollectProfile /\ UNCHANGED notRun
  \/ CollectError /\ UNCHANGED notRun
  \/ GenDict /\ UNCHANGED notRun
  \/ SaveDict /\ UNCHANGED notRun
  \/ SaveDictFails /\ UNCHANGED notRun
  \/ Pause /\ UNCHANGED notRun
  \/ PauseInterrupt /\ UNCHANGED notRun
  \/ CallMassdns /\ UNCHANGED notRun
  \/ Process /\ UNCHANGED notRun
  \/ ProcessMissingFile /\ UNCHANGED notRun
  \/ ScanName /\ UNCHANGED notRun
  \/ NextLayer /\ UNCHANGED notRun
  \/ Export /\ UNCHANGED notRun
SpecRun == InitRun /\ [][NextRun]_vars

\* The runs in which every step of the pipeline returns: no step ends the
\* process, and every step that can be taken is taken in the end. With no
\* interrupt, settings.enable_check_dict only decides whether check_dict
\* sleeps before it returns (lines 364-370), so it is left off.
InitRunReturns == InitRun /\ ~enable_check_dict
NextRunReturns ==
  \/ NextDomain /\ UNCHANGED notRun
  \/ RunReturn /\ UNCHANGED notRun
  \/ Detect /\ UNCHANGED notRun
  \/ CollectProfile /\ UNCHANGED notRun
  \/ GenDict /\ UNCHANGED notRun
  \/ SaveDict /\ UNCHANGED notRun
  \/ Pause /\ UNCHANGED notRun
  \/ CallMassdns /\ UNCHANGED notRun
  \/ Process /\ UNCHANGED notRun
  \/ ScanName /\ UNCHANGED notRun
  \/ NextLayer /\ UNCHANGED notRun
  \/ Export /\ UNCHANGED notRun
SpecRunFair == InitRunReturns /\ [][NextRunReturns]_vars /\ WF_vars(NextRunReturns)

\* The collector fed with timeouts, negative answers and data only (no
\* unexpected error), and never suspended: the loop of line 309 always goes on.
NextFeed ==
  \/ Start /\ UNCHANGED notCol
  \/ NewToken /\ UNCHANGED notCol
  \/ QueryTimeout /\ UNCHANGED notCol
  \/ QueryNegative /\ UNCHANGED notCol
  \/ QueryData /\ UNCHANGED notCol
  \/ Iterate /\ UNCHANGED notCol
SpecCollectorFair == InitCollector /\ [][NextFeed]_vars /\ WF_vars(NextFeed)

\* ============================================================= claims
\* The escape condition of the wildcard comparison, as the specification
\* words it.
Escape(t, w) == t # w /\ t % 60 = 0 /\ w % 60 = 0
Classified == verdict # NoVerdict

\* C1: a blacklisted ip is classified (invalid, IP blacklist) whatever the
\* ttl, the frequency and the wildcard profile are.
C1_BlacklistFirst ==
  (Classified /\ v_ip \in ip_blacklist) => verdict = <<0, "IP blacklist">>

\* C1 witness: a blacklisted ip that is also in a non-empty profile with the
\* same ttl and above the reuse ceiling has been classified.
C1_Witness ==
  /\ Classified /\ v_ip \in ip_blacklist
  /\ v_ip \in wc_ips /\ wc_ttl = 300 /\ v_ttl = 300
  /\ v_times > ip_appear_maximum

\* C2: a non-blacklisted ip in a profile with a non-empty IP set and a
\* non-negative profile ttl is classified (invalid, IP wildcard) unless the
\* escape condition holds, whatever its frequency is.
C2_WildcardRejected ==
  (/\ Classified /\ v_ip \notin ip_blacklist
   /\ wc_ips # {} /\ v_ip \in wc_ips
   /\ v_ttl >= 0 /\ wc_ttl >= 0
   /\ ~Escape(v_ttl, wc_ttl))
  => verdict = <<0, "IP wildcard">>

\* The code rejects an ip as wildcard exactly here.
WildcardRejects ==
  /\ wc_ips # {} /\ wc_ttl # None /\ wc_ttl # 0
  /\ v_ip \in wc_ips /\ ~Escape(v_ttl, wc_ttl)

\* C3: an ip neither blacklisted nor rejected as wildcard is classified
\* (invalid, IP exceeded) when its frequency is above the ceiling and
\* (valid, OK) otherwise; 1.2.3.4 with ttl 300, frequency 1 and an empty
\* profile is (valid, OK).
C3_FrequencyDecides ==
  /\ (Classified /\ v_ip \notin ip_blacklist /\ ~WildcardRejects)
       => verdict = IF v_times > ip_appear_maximum
                      THEN <<0, "IP exceeded">> ELSE <<1, "OK">>
  /\ (Classified /\ v_ip = "1.2.3.4" /\ v_ttl = 300 /\ v_times = 1
        /\ wc_ips = {} /\ wc_ttl = 0)
       => verdict = <<1, "OK">>

\* C3 witness: the frequency sits exactly at the ceiling for an ip that is in
\* the profile's IP set but escapes by its ttl, and the verdict is OK.
C3_Witness ==
  /\ Classified /\ v_ip = "1.2.3.4" /\ v_times = ip_appear_maximum
  /\ wc_ips = {"1.2.3.4"} /\ wc_ttl = 60 /\ v_ttl = 300
  /\ verdict = <<1, "OK">>

\* ------------------------------------------------- result processing
\* The number of A answers with address a in the NOERROR records of a batch.
RECURSIVE RefCount(_, _)
RefCount(ls, a) ==
  IF ls = <<>> THEN 0
  ELSE LET l == Head(ls)
           n == IF l.kind = "json" /\ l.status = "NOERROR" /\ l.has_answers
                  THEN Cardinality({i \in DOMAIN l.answers :
                         l.answers[i].type = "A" /\ l.answers[i].data = a})
                  ELSE 0
       IN n + RefCount(Tail(ls), a)

AnswerValid(ans) ==
  is_valid_subdomain(ans.data, ans.ttl, RefCount(lines, ans.data),
                     wildcard_ips, wildcard_ttl)[1] = 1

\* A NOERROR record with at least one A answer, all of them valid.
RecordAccepted(l) ==
  /\ l.kind = "json" /\ l.status = "NOERROR" /\ l.has_answers
  /\ \E i \in DOMAIN l.answers : l.answers[i].type = "A"
  /\ \A i \in DOMAIN l.answers : l.answers[i].type = "A" => AnswerValid(l.answers[i])

\* A record with a valid and an invalid A answer.
RecordMixed(l) ==
  /\ l.kind = "json" /\ l.status = "NOERROR" /\ l.has_answers
  /\ \E i, j \in DOMAIN l.answers :
       /\ l.answers[i].type = "A" /\ AnswerValid(l.answers[i])
       /\ l.answers[j].type = "A" /\ ~AnswerValid(l.answers[j])

NameAccepted(q) ==
  \E i \in DOMAIN lines :
     lines[i].kind = "json" /\ strip_root(lines[i].name) = q /\ RecordAccepted(lines[i])

QNames == {strip_root(n) : n \in RootNames}

\* C4: after deal_output a name has an info and is in the accepted list if
\* and only if some NOERROR record of that name has an A answer and all its
\* A answers are valid; a record with a valid and an invalid A answer adds
\* nothing.
C4_AllOrNothing ==
  o_pc = "done" =>
    /\ \A q \in QNames :
         /\ (q \in DOMAIN infos) <=> NameAccepted(q)
         /\ (q \in Range(subdomains)) <=> NameAccepted(q)
    /\ DOMAIN infos \subseteq QNames
    /\ Range(subdomains) \subseteq QNames
    /\ Len(subdomains) = Cardinality({i \in DOMAIN lines : RecordAccepted(lines[i])})

\* C4 witness: a batch with a mixed record, whose name is in neither result,
\* and an accepted record of the other name.
C4_Witness ==
  /\ o_pc = "done"
  /\ \E i \in DOMAIN lines :
       /\ RecordMixed(lines[i])
       /\ strip_root(lines[i].name) \notin DOMAIN infos
       /\ strip_root(lines[i].name) \notin Range(subdomains)
  /\ Len(subdomains) = 1

\* ---------------------------------------------------------- collector
Done == pc \in DonePcs
LastN(s, n) == SubSeq(s, Len(s) - n + 1, Len(s))
AtFifth == Len(ttls_check) > 0 /\ Len(ttls_check) % 5 = 0
Recorded == pc # "returned"
\* The last 5 recorded outcomes were all "no data".
LastFiveNoData == AtFifth /\ \A t \in Range(LastN(ttls_check, 5)) : t = None
\* The TTLs of the last 5 recorded outcomes are pairwise distinct.
LastFiveDistinct == AtFifth /\ Cardinality(Range(LastN(ttls_check, 5))) = 5
\* Distinct addresses seen at least twice / distinct addresses seen >= 0.8.
SeenTwice == {a \in IPs : ips_stat[a] >= 2}
Seen == {a \in IPs : ips_stat[a] >= 1}
Ratio80 == Seen # {} /\ 5 * Cardinality(SeenTwice) >= 4 * Cardinality(Seen)

\* C5: when the last 5 outcomes at a 5th iteration are all "no data", the
\* collector returns an empty IP set and ttl 0, in the first window and in
\* every later one.
C5_NoDataGivesEmptyProfile ==
  (Recorded /\ LastFiveNoData) => (pc = "break_no_data" /\ ips = {} /\ ttl = 0)

\* C6: at every 5th iteration, if the TTLs of the last 5 outcomes are
\* pairwise distinct, the collector stops with an empty IP set and ttl 0.
C6_TtlInstabilityEveryFifth ==
  (Recorded /\ LastFiveDistinct) => (pc = "break_ttl" /\ ips = {} /\ ttl = 0)

\* C7: the collector stops by convergence exactly at the first iteration
\* with data that brings the ratio to 0.8 or more, and returns every address
\* seen with the TTL of that iteration; a feed of one (ip, ttl) converges to
\* ({ip}, ttl), at its second iteration.
SingleFeed(a, t) ==
  /\ ttls_check # <<>>
  /\ \A i \in DOMAIN ttls_check : ttls_check[i] = t
  /\ \A x \in IPs : ips_stat[x] = IF x = a THEN Len(ttls_check) ELSE 0
C7_Convergence ==
  /\ Ratio80 => pc = "break_converged"
  /\ pc = "break_converged" =>
       /\ Ratio80 /\ ip # {} /\ ips = Seen
       /\ ttl # None /\ ttl = ttls_check[Len(ttls_check)]
  /\ \A a \in IPs : \A t \in {300} :
       (Recorded /\ SingleFeed(a, t)) =>
          /\ Len(ttls_check) <= 10
          /\ Len(ttls_check) >= 2 => (pc = "break_converged" /\ ips = {a} /\ ttl = t)

\* C7 witness: convergence after the first window, on two addresses, with a
\* "no data" outcome on the way.
C7_Witness ==
  /\ pc = "break_converged" /\ Cardinality(ips) = 2
  /\ Len(ttls_check) > 5 /\ None \in Range(ttls_check)

\* C8: whatever the collector returns is fully populated (addresses and a
\* TTL of an observed answer) or fully empty (no address, ttl 0).
C8_ProfileFullOrEmpty ==
  Done => \/ ips = {} /\ ttl = 0
          \/ ips # {} /\ ttl # None /\ ttl \in Range(ttls_check)

\* C9 as claimed: for every sequence of outcomes the loop ends.
C9_Terminates == <>Done

\* C9 amended: the loop is left only by one of the three stopping rules, each
\* under its own condition.
C9_OnlyThreeRules ==
  /\ pc \in {"start", "loop", "query", "returned"} \cup DonePcs
  /\ pc = "return_no_ns" => authoritative_ns = {} /\ ttls_check = <<>>
  /\ pc = "break_no_data" => LastFiveNoData
  /\ pc = "break_ttl" => Len(ttls_check) = 5 /\ LastFiveDistinct
  /\ pc = "break_converged" => Ratio80 /\ ip # {}
  /\ (Done /\ pc # "return_no_ns") => authoritative_ns # {}

\* C9 witness: the collector stopped on "no data" in its second window.
C9_Witness == pc = "break_no_data" /\ Len(ttls_check) = 10 /\ ips # {}

\* C10: at most 2 queries per random subdomain; a first timeout is retried
\* once, a second one ends the attempts; a definitive negative answer
\* returns (None, None) and is not retried.
C10_BoundedRetry ==
  /\ queries <= 2
  /\ pc = "query" => queries = attempt - 1 /\ attempt \in {1, 2}
  /\ (pc = "query" /\ attempt = 2) => answer = "Timeout"
  /\ (answer = "Timeout" /\ pc = "loop") => queries = 2
  /\ answer \in Negatives =>
       pc = "returned" /\ ip = {} /\ ttl = None /\ queries = attempt

\* C10 witness: a negative answer to the retry that followed a timeout.
C10_Witness == answer \in Negatives /\ queries = 2 /\ pc = "returned"

\* -------------------------------------------------- wildcard detection
AllResolve == \A i \in Probes : resolves[i]
AllFetched == \A i \in Probes : fetches[i] # NoResp
SomePairSimilar ==
  \E i, j \in Probes : i < j /\ is_similar(similar, fetches[i], fetches[j])

\* C12: detect_wildcard answers False if a probe does not resolve (and then
\* fetches nothing), True if all resolve and a fetch fails, True if all
\* resolve, all fetches succeed and two bodies are similar, and False if all
\* resolve, all fetches succeed, whatever the bodies, and no two bodies are
\* similar.
C12_DetectTable ==
  d_pc = "done" =>
    /\ ~AllResolve => (d_ret = "False" /\ requests = 0)
    /\ (AllResolve /\ ~AllFetched) => d_ret = "True"
    /\ (AllResolve /\ AllFetched /\ SomePairSimilar) => d_ret = "True"
    /\ (AllResolve /\ AllFetched /\ ~SomePairSimilar) => d_ret = "False"

\* ---------------------------------------------------- malformed lines
\* The output without its malformed lines.
WellFormed(ls) == SelectSeq(ls, LAMBDA l : l.kind = "json")

\* Pass 1 and pass 2 over a whole output.
RECURSIVE StatAll(_, _)
StatAll(ls, times) ==
  IF ls = <<>> THEN times ELSE StatAll(Tail(ls), stat_line(times, Head(ls)))
RECURSIVE DealAll(_, _, _, _)
DealAll(ls, infs, subs, times) ==
  IF ls = <<>> THEN <<infs, subs>>
  ELSE LET r == deal_line(Head(ls), infs, subs, times, wildcard_ips, wildcard_ttl)
       IN DealAll(Tail(ls), r[1], r[2], times)

NoTimes == [a \in IPs |-> 0]

\* C17: a malformed line is skipped in both passes and never aborts the
\* batch: the frequency table, the accepted list and the info mapping are
\* those of the same output with the malformed lines removed.
C17_MalformedSkipped ==
  /\ o_pc \in {"deal", "done"} => ip_times = StatAll(WellFormed(lines), NoTimes)
  /\ o_pc = "done" =>
       <<infos, subdomains>> =
         DealAll(WellFormed(lines), <<>>, <<>>, StatAll(WellFormed(lines), NoTimes))

\* A malformed first line, and the record after it accepted.
C17_Witness ==
  /\ o_pc = "done" /\ Len(lines) = 2
  /\ lines[1].kind = "bad" /\ lines[2].kind = "json"
  /\ subdomains = <<strip_root(lines[2].name)>>
  /\ \E a \in IPs : ip_times[a] > 0

\* C18: after pass 1 the count of each address is the number of A answers
\* carrying it over the NOERROR records; records of another status and
\* answers of another type add nothing.
C18_CountsAreAAnswers ==
  o_pc \in {"deal", "done"} => \A a \in IPs : ip_times[a] = RefCount(lines, a)

\* A failed record with an A answer next to a NOERROR record with an A and a
\* CNAME answer: only the latter is counted.
C18_Witness ==
  /\ o_pc = "deal" /\ Len(lines) = 2
  /\ lines[1].kind = "json" /\ lines[1].status = "SERVFAIL"
  /\ lines[1].has_answers /\ lines[1].answers[1].data = "1.2.3.4"
  /\ lines[2].kind = "json" /\ lines[2].status = "NOERROR"
  /\ Len(lines[2].answers) = 2
  /\ lines[2].answers[1].type = "CNAME"
  /\ lines[2].answers[2].type = "A" /\ lines[2].answers[2].data = "1.2.3.4"
  /\ ip_times["1.2.3.4"] = 1 /\ ip_times["5.6.7.8"] = 0

\* --------------------------------------------------------- dictionary
\* A line normalised: trimmed, lower-cased, one dot cut at each end.
Normalised(line) == cut_dots(lower(strip(line)))
\* The distinct normalised, valid, non-empty labels of the wordlist.
Labels ==
  {w \in {Normalised(file_lines(file)[i]) : i \in DOMAIN file_lines(file)} :
     Len(w) > 0 /\ is_subname(w, dots_pass)}
\* A name with an empty label: a dot at an end, or two dots in a row.
HasEmptyLabel(n) ==
  \/ n = <<>> \/ n[1] = "." \/ n[Len(n)] = "."
  \/ \E i \in 1..(Len(n) - 1) : n[i] = "." /\ n[i + 1] = "."

\* C20: for a wordlist whose lines normalise to K distinct valid non-empty
\* labels, gen_subdomains returns exactly the K names made of the template
\* with `*` replaced by one of those labels, and no returned name has an
\* unstripped dot of the label or an empty label.
C20_ExactlyK ==
  g_pc = "done" =>
    /\ g_subdomains = {replace(expression, w) : w \in Labels}
    /\ Cardinality(g_subdomains) = Cardinality(Labels)
    /\ \A n \in g_subdomains : ~HasEmptyLabel(n)

\* -------------------------------------------------------------- Brute
\* The dictionary of the current run of main has been generated.
DictMade == InMain /\ m_pc \notin {"detect", "collect", "dict"}
EndsWith(n, d) ==
  Len(n) >= Len(d) /\ SubSeq(n, Len(n) - Len(d) + 1, Len(n)) = d

\* C11: an unexpected error of a wildcard-profiling query aborts only the
\* wildcard collection of its domain; the run as a whole does not end.
C11_ErrorIsLocal == ~(r_pc = "exit" /\ exit_by = "wildcard_error")

\* The configuration breaks one of the rules of the validation.
Violation ==
  \/ ~(word \/ fuzz)
  \/ fuzz /\ count_star(arg_place) # 1
  \/ fuzz /\ domains # <<>> /\ ~contains(arg_place, domains[1])
  \/ fuzz /\ Len(domains) > 1
  \/ fuzz /\ recursive_brute

\* C13: with a configuration that breaks a rule of the validation no
\* pipeline step is ever run: the process ends at the validation of the
\* first domain (a run without any domain just returns).
C13_InvalidConfigurationStops ==
  Violation =>
    /\ roots = <<>> /\ m_pc = "idle" /\ exported = <<>>
    /\ IF domains = <<>>
         THEN r_pc \in {"loop", "returned"}
         ELSE \/ r_pc = "loop" /\ d_idx = 0
              \/ r_pc = "exit" /\ exit_by = "params" /\ d_idx = 1

\* Fuzz mode with recursive mode, and nothing else wrong, has ended the
\* process.
C13_Witness ==
  /\ fuzz /\ recursive_brute /\ has_rule /\ Len(domains) = 1
  /\ count_star(arg_place) = 1 /\ contains(arg_place, domains[1])
  /\ r_pc = "exit" /\ exit_by = "params" /\ roots = <<>>

\* C14: in a batch of several domains, with no template given, the
\* candidates of each domain d_i are built from `*.d_i` and end with d_i,
\* and what is bruted again for d_i is a name of d_i.
C14_DomainsIndependent ==
  (Len(domains) > 1 /\ arg_place = NonePlace) =>
    /\ (DictMade /\ r_pc = "main") => place = star_dot(domains[d_idx])
    /\ DictMade => \A n \in dict_set : EndsWith(n, domains[d_idx])
    /\ InMain => EndsWith(m_domain, domains[d_idx])

\* The names accepted for the current domain.
AcceptedHere == {all_subdomains[i] : i \in (d_from + 1)..Len(all_subdomains)}
Depth(n) == count_dots(n) - count_dots(domains[d_idx])

\* C15: at layer L of the recursion for domain d the pipeline is run again,
\* with template `*.n`, for exactly the names n accepted earlier for d that
\* lie L-1 labels above d.
C15_LayerRoots ==
  /\ r_pc = "main_rec" =>
       /\ s_idx > d_from
       /\ m_domain \in AcceptedHere
       /\ Depth(m_domain) = layer_num
       /\ DictMade => place = star_dot(m_domain)
  /\ (r_pc = "scan" /\ s_idx > Len(all_subdomains)) =>
       \A n \in AcceptedHere : Depth(n) = layer_num => n \in Range(roots)

\* C16: when the resolver fails, main does not go on to result processing.
C16_FailureStopsMain == massdns = "failed" => ~processed

\* C19: the dictionary is written before the pause and the pause comes
\* before the resolver; an interrupt during the pause ends the whole run,
\* with the resolver not invoked, nothing processed and nothing exported for
\* the domain, and the written dictionary left in place.
C19_PauseBeforeResolver ==
  /\ m_pc = "pause" => (saved /\ massdns = "none")
  /\ paused => saved
  /\ massdns # "none" => (saved /\ paused)
  /\ processed => massdns # "none"
  /\ interrupted =>
       /\ r_pc = "exit" /\ exit_by = "interrupt"
       /\ saved /\ massdns = "none" /\ ~processed
       /\ domains[d_idx] \notin Range(exported)

\* The pause of the second domain's run is interrupted.
C19_Witness ==
  /\ interrupted /\ r_pc = "exit" /\ saved /\ d_idx = 2
  /\ exported = <<domains[1]>>

\* --------------------------------------------------------- classifier
\* C21: a non-blacklisted ip in a non-empty profile whose ttl escapes (it
\* differs from the profile's ttl and both are multiples of 60) is never
\* classified IP wildcard: the frequency alone decides, IP exceeded above
\* the ceiling and OK otherwise.
C21_EscapeLeavesFrequency ==
  (/\ Classified /\ v_ip \notin ip_blacklist
   /\ wc_ips # {} /\ v_ip \in wc_ips
   /\ Escape(v_ttl, wc_ttl))
  => /\ verdict[2] # "IP wildcard"
     /\ verdict = IF v_times > ip_appear_maximum
                    THEN <<0, "IP exceeded">> ELSE <<1, "OK">>

\* An ip of the profile that escapes by its ttl and is used too often.
C21_Witness ==
  /\ Classified /\ v_ip = "5.6.7.8" /\ wc_ips = {"1.2.3.4", "5.6.7.8"}
  /\ wc_ttl = 60 /\ v_ttl = 120 /\ v_times > ip_appear_maximum
  /\ verdict = <<0, "IP exceeded">>

\* ---------------------------------------------------------- collector
\* The second query of a token has timed out, as the first one did.
TimedOutTwice == pc = "query" /\ answer' = "Timeout" /\ queries' = 2

\* C23: a probe whose two attempts time out changes nothing in the
\* collector's state: no outcome or TTL is recorded, no IP and no count is
\* added, the collection does not end, and the loop goes on with a new
\* token.
C23_TimeoutChangesNothing ==
  [][/\ TimedOutTwice =>
          /\ pc' = "loop"
          /\ UNCHANGED <<ip, ttl, ips, ttls_check, ips_check, ips_stat,
                         authoritative_ns>>
     /\ (pc = "loop" /\ answer = "Timeout") =>
          (pc' = "query" /\ attempt' = 1 /\ queries' = 0)]_vars

\* A probe has timed out twice in the middle of a collection.
C23_Witness ==
  /\ pc = "loop" /\ answer = "Timeout" /\ queries = 2
  /\ ips # {} /\ Len(ttls_check) = 3 /\ Len(ips_check) = 3

\* -------------------------------------------------- result processing
\* The addresses pass 2 hands to the classifier: those of the A answers of
\* the NOERROR records that have answers.
Evaluated ==
  UNION {{l.answers[j].data :
            j \in {k \in DOMAIN l.answers : l.answers[k].type = "A"}} :
         l \in {x \in Range(lines) :
                  x.kind = "json" /\ x.status = "NOERROR" /\ x.has_answers}}

\* C25: after deal_output the names of the accepted list are the keys of
\* the info mapping, every info's reason is OK, and every ip evaluated in
\* pass 2 has a count of at least 1 in the table of pass 1.
C25_AcceptedInfosAgree ==
  /\ o_pc = "done" =>
       /\ Range(subdomains) = DOMAIN infos
       /\ \A n \in DOMAIN infos :
            /\ infos[n].reason = "OK"
            /\ \A k \in DOMAIN infos[n].times :
                 infos[n].times[k] # None /\ infos[n].times[k] >= 1
  /\ o_pc \in {"deal", "done"} =>
       \A a \in Evaluated : times_get(ip_times, a) # None /\ ip_times[a] >= 1

\* A name with two valid A answers is accepted next to a name rejected by
\* the wildcard profile.
C25_Witness ==
  /\ o_pc = "done" /\ Len(lines) = 2 /\ wildcard_ips = {"1.2.3.4"}
  /\ Evaluated = {"1.2.3.4", "5.6.7.8"}
  /\ Len(subdomains) = 1 /\ DOMAIN infos = {subdomains[1]}
  /\ infos[subdomains[1]].ip = <<"5.6.7.8", "5.6.7.8">>
  /\ infos[subdomains[1]].times = <<2, 2>>

\* ---------------------------------------------------------- recursion
\* The number of labels of a root above the current domain.
LabelsAbove == count_dots(m_domain) - count_dots(domains[d_idx])

\* C22: the recursion is bounded in depth and ends: the pipeline is never
\* run for a root maxDepth or more labels above the domain, a name appended
\* to the pool while a layer is scanned is not bruted in that layer, and
\* when every run of the pipeline returns the recursive phase ends.
C22_DepthBoundedAndEnds ==
  /\ [](recursive_brute =>
          /\ InMain => LabelsAbove < recursive_depth
          /\ r_pc = "main_rec" => s_idx <= l_from)
  /\ (r_pc = "scan") ~> (r_pc = "export")

\* A recursion of depth 3 has ended: a name 2 labels above the domain was
\* bruted, and the name 3 labels above it that was found was not.
C22_Witness ==
  /\ r_pc = "export" /\ recursive_brute /\ recursive_depth = 3
  /\ \E i \in DOMAIN roots : Len(roots[i]) = Len(domains[d_idx]) + 2
  /\ \E n \in Range(all_subdomains) :
       Len(n) = Len(domains[d_idx]) + 3 /\ n \notin Range(roots)

\* C24: during one call of run no name is passed to main twice.
C24_NoRootTwice ==
  \A i, j \in DOMAIN roots : i # j => roots[i] # roots[j]

=============================================================================
